---------------------------- MODULE Spec2Model ----------------------------
(***************************************************************************)
(* A model of the BioStudies tool server (src/server.py): the three tool   *)
(* operations get_study, search_studies and get_study_info, and the        *)
(* request executor _make_api_request they delegate to.                    *)
(*                                                                         *)
(* A Python str is a sequence of one-character strings, so that split,     *)
(* startswith, formatting and JSON (de)serialisation are modelled by what  *)
(* they do to the characters.  A dict is a function from keys to values.   *)
(***************************************************************************)
EXTENDS Naturals, Sequences, FiniteSets, TLC

VARIABLES
    pc,      \* pc[p]: where invocation p stands
    call,    \* call[p]: the tool and the argument the host invoked p with
    frame,   \* frame[f]: the local variables of the call frame f
    wire,    \* wire[p]: the GET requests invocation p has issued, in order
    net,     \* net[p]: what the remote end (or the transport) answered p
    ret      \* ret[p]: the text invocation p returned to the host

vars == <<pc, call, frame, wire, net, ret>>

-----------------------------------------------------------------------------
(* Bounds of the model *)

\* the number of tool invocations the host may have running at once
NumProcs == 2

\* the largest number of `&`-joined tokens in a generated search string
MaxPairs == 3

\* the largest number of fragments in a generated response body
MaxBodyFrags == 3

\* the executor never issues more than this many GETs in the model
MaxGets == 3

Procs == 1 .. NumProcs

-----------------------------------------------------------------------------
(* String literals of the program *)

\* "https://www.ebi.ac.uk/biostudies/api/v1"
ApiBase ==
    <<"h","t","t","p","s",":","/","/","w","w","w",".","e","b","i",".","a","c",
      ".","u","k","/","b","i","o","s","t","u","d","i","e","s","/","a","p","i",
      "/","v","1">>

\* "/studies/"
StudiesPath ==
    <<"/","s","t","u","d","i","e","s","/">>

\* "/info"
InfoSuffix ==
    <<"/","i","n","f","o">>

\* "/search"
SearchSuffix ==
    <<"/","s","e","a","r","c","h">>

\* "collection"
KeyCollection ==
    <<"c","o","l","l","e","c","t","i","o","n">>

\* "facet."
FacetPrefix ==
    <<"f","a","c","e","t",".">>

\* "page"
KeyPage ==
    <<"p","a","g","e">>

\* "pageSize"
KeyPageSize ==
    <<"p","a","g","e","S","i","z","e">>

\* "sortOrder"
KeySortOrder ==
    <<"s","o","r","t","O","r","d","e","r">>

\* "1"
DefaultPage ==
    <<"1">>

\* "20"
DefaultPageSize ==
    <<"2","0">>

\* "descending"
DefaultSortOrder ==
    <<"d","e","s","c","e","n","d","i","n","g">>

\* "Error: Request failed with status code "
StatusErrorHead ==
    <<"E","r","r","o","r",":"," ","R","e","q","u","e","s","t"," ","f","a","i",
      "l","e","d"," ","w","i","t","h"," ","s","t","a","t","u","s"," ","c","o",
      "d","e"," ">>

\* ". Response: "
StatusErrorMid ==
    <<"."," ","R","e","s","p","o","n","s","e",":"," ">>

\* "Error: An exception occurred during request: "
ExceptionErrorHead ==
    <<"E","r","r","o","r",":"," ","A","n"," ","e","x","c","e","p","t","i","o",
      "n"," ","o","c","c","u","r","r","e","d"," ","d","u","r","i","n","g"," ",
      "r","e","q","u","e","s","t",":"," ">>

\* the status the executor takes for success
StatusOk == 200

\* the indent width handed to json.dumps
JsonIndent == 2

-----------------------------------------------------------------------------
(* str operations *)

\* sub in s, for a one-character sub
Contains(s, c) ==
    \E i \in 1 .. Len(s) : s[i] = c

\* s.find(c) + 1 for a one-character c that occurs in s
FirstIndex(s, c) ==
    CHOOSE i \in 1 .. Len(s) : s[i] = c /\ \A j \in 1 .. (i - 1) : s[j] # c

\* s.split(c): the pieces of s between the occurrences of c, in order
RECURSIVE Split(_, _)
Split(s, c) ==
    IF Contains(s, c)
    THEN LET i == FirstIndex(s, c)
         IN  <<SubSeq(s, 1, i - 1)>> \o Split(SubSeq(s, i + 1, Len(s)), c)
    ELSE <<s>>

\* a faulty SplitOnce: s.rsplit(c, 1), which splits at the last c
SplitAtLast(s, c) ==
    LET i == CHOOSE i \in 1 .. Len(s) :
                 s[i] = c /\ \A j \in (i + 1) .. Len(s) : s[j] # c
    IN  <<SubSeq(s, 1, i - 1), SubSeq(s, i + 1, Len(s))>>

\* s.split(c, 1) for an s that holds c: what precedes the first c, what follows it
SplitOnce(s, c) ==
    LET i == FirstIndex(s, c)
    IN  <<SubSeq(s, 1, i - 1), SubSeq(s, i + 1, Len(s))>>

\* s.startswith(prefix)
StartsWith(s, prefix) ==
    /\ Len(s) >= Len(prefix)
    /\ SubSeq(s, 1, Len(prefix)) = prefix

\* one decimal digit as a character
DigitChar(d) ==
    <<"0","1","2","3","4","5","6","7","8","9">>[d + 1]

\* str(n) for a natural number n
RECURSIVE IntToStr(_)
IntToStr(n) ==
    IF n < 10
    THEN <<DigitChar(n)>>
    ELSE IntToStr(n \div 10) \o <<DigitChar(n % 10)>>

-----------------------------------------------------------------------------
(* dict operations *)

\* {}
EmptyDict ==
    [k \in {} |-> <<>>]

\* d[k] = v
DictSet(d, k, v) ==
    [x \in (DOMAIN d) \cup {k} |-> IF x = k THEN v ELSE d[x]]

\* d without the key k
DictDel(d, k) ==
    [x \in (DOMAIN d) \ {k} |-> d[x]]

\* None, and a value that is not None
None ==
    [some |-> FALSE, val |-> <<>>]

Some(v) ==
    [some |-> TRUE, val |-> v]

\* the params argument: None (the default), or a dict
NoParams ==
    [some |-> FALSE, map |-> EmptyDict]

Params(d) ==
    [some |-> TRUE, map |-> d]

-----------------------------------------------------------------------------
(* search_studies: the parameter string to the request *)

\* the loop over param_pairs: a pair holding `=` is split at its first `=` and
\* assigned into the dict, any other pair is passed over
RECURSIVE ParseLoop(_, _, _)
ParseLoop(pairs, i, d) ==
    IF i > Len(pairs)
    THEN d
    ELSE LET pair == pairs[i]
         IN  IF Contains(pair, "=")
             THEN LET kv == SplitOnce(pair, "=")
                  IN  ParseLoop(pairs, i + 1, DictSet(d, kv[1], kv[2]))
             ELSE ParseLoop(pairs, i + 1, d)

\* param_dict after the parsing block
ParseParams(params) ==
    IF params # <<>>
    THEN ParseLoop(Split(params, "&"), 1, EmptyDict)
    ELSE EmptyDict

\* param_dict.pop('collection', None): the value popped
PopCollection(d) ==
    IF KeyCollection \in DOMAIN d THEN Some(d[KeyCollection]) ELSE None

\* a faulty AfterPop: param_dict.get('collection') in place of pop, which
\* leaves the key in the dict
AfterPopKeeps(d) ==
    d

\* param_dict.pop('collection', None): the dict left
AfterPop(d) ==
    DictDel(d, KeyCollection)

\* a faulty Truthy: `collection is not None`, which takes the empty string too
NotNone(collection) ==
    collection.some

\* the truth value of `collection`: not None and not the empty string
Truthy(collection) ==
    collection.some /\ collection.val # <<>>

\* base_url
BaseUrl(collection) ==
    IF Truthy(collection)
    THEN ApiBase \o <<"/">> \o collection.val \o SearchSuffix
    ELSE ApiBase \o SearchSuffix

\* a faulty FilterFacets: the prefix test made on the value, not on the key
FilterFacetValues(d) ==
    [k \in {x \in DOMAIN d : ~StartsWith(d[x], FacetPrefix)} |-> d[k]]

\* the dict comprehension that filters the facet.* parameters out
FilterFacets(d) ==
    [k \in {x \in DOMAIN d : ~StartsWith(x, FacetPrefix)} |-> d[k]]

\* a faulty SetDefault: `if not param_dict.get(key)`, which also replaces an
\* empty value
SetDefaultIfFalsy(d, k, v) ==
    IF k \notin DOMAIN d \/ d[k] = <<>> THEN DictSet(d, k, v) ELSE d

\* one `if key not in param_dict: param_dict[key] = value`
SetDefault(d, k, v) ==
    IF k \notin DOMAIN d THEN DictSet(d, k, v) ELSE d

\* the three pagination defaults
SetDefaults(d) ==
    SetDefault(SetDefault(SetDefault(d, KeyPage, DefaultPage),
                          KeyPageSize, DefaultPageSize),
               KeySortOrder, DefaultSortOrder)

-----------------------------------------------------------------------------
(* get_study, get_study_info: the accession to the URL *)

StudyUrl(accession) ==
    ApiBase \o StudiesPath \o accession

\* a faulty StudyInfoUrl: the URL of get_study, without the info segment
StudyInfoUrlNoSuffix(accession) ==
    ApiBase \o StudiesPath \o accession

StudyInfoUrl(accession) ==
    ApiBase \o StudiesPath \o accession \o InfoSuffix

-----------------------------------------------------------------------------
(* response.json() and json.dumps(..., indent=2)                           *)
(*                                                                         *)
(* A JSON value is a tagged tuple: <<"null">>, <<"true">>, <<"false">>,    *)
(* <<"int", digits>>, <<"str", chars>>, <<"list", items>> and              *)
(* <<"dict", pairs>>, the pairs being <<key, value>> in insertion order.   *)
(* The documents are those over the characters of the response bodies      *)
(* below: no sign, fraction or exponent in a number, no backslash escape   *)
(* and no character beyond ASCII in a string.                              *)

JsonWhitespace ==
    {" ", "\t", "\n", "\r"}

JsonDigits ==
    {"0","1","2","3","4","5","6","7","8","9"}

\* the decoder raised
JsonFail ==
    [ok |-> FALSE, val |-> <<"null">>, end |-> 0]

\* the decoder read the value v and stands at index e
JsonOk(v, e) ==
    [ok |-> TRUE, val |-> v, end |-> e]

\* the first index from i on that holds no whitespace (Len(s) + 1 if none)
RECURSIVE SkipWs(_, _)
SkipWs(s, i) ==
    IF i <= Len(s) /\ s[i] \in JsonWhitespace THEN SkipWs(s, i + 1) ELSE i

\* the literal lit stands in s at index i
MatchAt(s, i, lit) ==
    /\ i + Len(lit) - 1 <= Len(s)
    /\ SubSeq(s, i, i + Len(lit) - 1) = lit

\* the first index from i on that holds no digit
RECURSIVE SkipDigits(_, _)
SkipDigits(s, i) ==
    IF i <= Len(s) /\ s[i] \in JsonDigits THEN SkipDigits(s, i + 1) ELSE i

\* an integer at index i (which holds a digit): 0, or a nonzero digit and the
\* digits that follow it
ScanNumber(s, i) ==
    LET e == IF s[i] = "0" THEN i + 1 ELSE SkipDigits(s, i)
    IN  JsonOk(<<"int", SubSeq(s, i, e - 1)>>, e)

\* a string whose opening quote stands right before index i
ScanString(s, i) ==
    IF \E j \in i .. Len(s) : s[j] = "\""
    THEN LET j == CHOOSE j \in i .. Len(s) :
                      s[j] = "\"" /\ \A k \in i .. (j - 1) : s[k] # "\""
         IN  JsonOk(<<"str", SubSeq(s, i, j - 1)>>, j + 1)
    ELSE JsonFail

\* dict(pairs) built pair by pair: a repeated key keeps its place and takes
\* the later value
PairSet(pairs, k, v) ==
    IF \E n \in 1 .. Len(pairs) : pairs[n][1] = k
    THEN [n \in 1 .. Len(pairs) |->
              IF pairs[n][1] = k THEN <<k, v>> ELSE pairs[n]]
    ELSE Append(pairs, <<k, v>>)

RECURSIVE ScanOnce(_, _)
RECURSIVE ArrayLoop(_, _, _)
RECURSIVE ObjectLoop(_, _, _)

\* the items of an array from index i on, acc being those read so far
ArrayLoop(s, i, acc) ==
    LET v == ScanOnce(s, i)
        j == SkipWs(s, v.end)
    IN  IF ~v.ok \/ j > Len(s)
        THEN JsonFail
        ELSE IF s[j] = "]"
        THEN JsonOk(<<"list", Append(acc, v.val)>>, j + 1)
        ELSE IF s[j] = ","
        THEN ArrayLoop(s, SkipWs(s, j + 1), Append(acc, v.val))
        ELSE JsonFail

\* an array whose `[` stands right before index i
ScanArray(s, i) ==
    LET j == SkipWs(s, i)
    IN  IF j <= Len(s) /\ s[j] = "]"
        THEN JsonOk(<<"list", <<>>>>, j + 1)
        ELSE ArrayLoop(s, j, <<>>)

\* the members of an object from index i on, where a key's quote must stand
ObjectLoop(s, i, acc) ==
    IF i > Len(s) \/ s[i] # "\""
    THEN JsonFail
    ELSE LET k == ScanString(s, i + 1)
             c == SkipWs(s, k.end)
         IN  IF ~k.ok \/ c > Len(s) \/ s[c] # ":"
             THEN JsonFail
             ELSE LET v == ScanOnce(s, SkipWs(s, c + 1))
                      m == SkipWs(s, v.end)
                  IN  IF ~v.ok \/ m > Len(s)
                      THEN JsonFail
                      ELSE IF s[m] = "}"
                      THEN JsonOk(<<"dict", PairSet(acc, k.val[2], v.val)>>, m + 1)
                      ELSE IF s[m] = ","
                      THEN ObjectLoop(s, SkipWs(s, m + 1),
                                      PairSet(acc, k.val[2], v.val))
                      ELSE JsonFail

\* an object whose `{` stands right before index i
ScanObject(s, i) ==
    LET j == SkipWs(s, i)
    IN  IF j <= Len(s) /\ s[j] = "}"
        THEN JsonOk(<<"dict", <<>>>>, j + 1)
        ELSE ObjectLoop(s, j, <<>>)

\* one value at index i
ScanOnce(s, i) ==
    IF i > Len(s) THEN JsonFail
    ELSE IF s[i] = "\"" THEN ScanString(s, i + 1)
    ELSE IF s[i] = "{" THEN ScanObject(s, i + 1)
    ELSE IF s[i] = "[" THEN ScanArray(s, i + 1)
    ELSE IF MatchAt(s, i, <<"n","u","l","l">>) THEN JsonOk(<<"null">>, i + 4)
    ELSE IF MatchAt(s, i, <<"t","r","u","e">>) THEN JsonOk(<<"true">>, i + 4)
    ELSE IF MatchAt(s, i, <<"f","a","l","s","e">>) THEN JsonOk(<<"false">>, i + 5)
    ELSE IF s[i] \in JsonDigits THEN ScanNumber(s, i)
    ELSE JsonFail

\* response.json(): one value between optional whitespace, and nothing else
JsonLoads(s) ==
    LET v == ScanOnce(s, SkipWs(s, 1))
    IN  IF v.ok /\ SkipWs(s, v.end) = Len(s) + 1 THEN v ELSE JsonFail

\* n spaces
Spaces(n) ==
    [i \in 1 .. n |-> " "]

\* the line break and the indentation that open a line at nesting level lvl
NewLine(indent, lvl) ==
    <<"\n">> \o Spaces(indent * lvl)

\* a str as a JSON string
DumpStr(chars) ==
    <<"\"">> \o chars \o <<"\"">>

RECURSIVE JsonDump(_, _, _)
RECURSIVE DumpItems(_, _, _, _)
RECURSIVE DumpMembers(_, _, _, _)

\* the items of a list from the n-th on, each on a line of its own
DumpItems(items, n, indent, lvl) ==
    IF n > Len(items)
    THEN <<>>
    ELSE (IF n > 1 THEN <<",">> ELSE <<>>)
         \o NewLine(indent, lvl)
         \o JsonDump(items[n], indent, lvl)
         \o DumpItems(items, n + 1, indent, lvl)

\* the members of a dict from the n-th on, each on a line of its own
DumpMembers(pairs, n, indent, lvl) ==
    IF n > Len(pairs)
    THEN <<>>
    ELSE (IF n > 1 THEN <<",">> ELSE <<>>)
         \o NewLine(indent, lvl)
         \o DumpStr(pairs[n][1]) \o <<":", " ">>
         \o JsonDump(pairs[n][2], indent, lvl)
         \o DumpMembers(pairs, n + 1, indent, lvl)

\* the text of the value v, itself standing at nesting level lvl
JsonDump(v, indent, lvl) ==
    IF v[1] = "int" THEN v[2]
    ELSE IF v[1] = "str" THEN DumpStr(v[2])
    ELSE IF v[1] = "list"
    THEN IF v[2] = <<>>
         THEN <<"[", "]">>
         ELSE <<"[">> \o DumpItems(v[2], 1, indent, lvl + 1)
                      \o NewLine(indent, lvl) \o <<"]">>
    ELSE IF v[1] = "dict"
    THEN IF v[2] = <<>>
         THEN <<"{", "}">>
         ELSE <<"{">> \o DumpMembers(v[2], 1, indent, lvl + 1)
                      \o NewLine(indent, lvl) \o <<"}">>
    ELSE IF v[1] = "null" THEN <<"n","u","l","l">>
    ELSE IF v[1] = "true" THEN <<"t","r","u","e">>
    ELSE <<"f","a","l","s","e">>

\* json.dumps(v, indent=indent)
JsonDumps(v, indent) ==
    JsonDump(v, indent, 0)

-----------------------------------------------------------------------------
(* _make_api_request: the outcome of the GET to the text returned          *)
(*                                                                         *)
(* An outcome of requests.get is a record: kind "exc", the call raised     *)
(* and descr is str(e); kind "resp", the call returned a response with a   *)
(* status and a body, and descr is the str(e) of the error response.json() *)
(* raises when the body does not parse; kind "none", no outcome yet.       *)

NoOutcome ==
    [kind |-> "none", status |-> 0, body |-> <<>>, descr |-> <<>>]

Raises(d) ==
    [kind |-> "exc", status |-> 0, body |-> <<>>, descr |-> d]

Response(st, b, d) ==
    [kind |-> "resp", status |-> st, body |-> b, descr |-> d]

\* a statement completed with the value text, or raised an exception of class
\* cls whose str() is text
Value(text) ==
    [raised |-> FALSE, cls |-> "", text |-> text]

Raised(cls, text) ==
    [raised |-> TRUE, cls |-> cls, text |-> text]

\* a faulty Handles: `except requests.exceptions.RequestException` in a
\* version of requests whose JSON errors are not of that class
HandlesTransportOnly(cls) ==
    cls = "RequestException"

\* the classes `except Exception` catches, among those the try block raises
Handles(cls) ==
    cls \in {"RequestException", "JSONDecodeError"}

\* the f-string returned for a status other than 200
StatusError(status, text) ==
    StatusErrorHead \o IntToStr(status) \o StatusErrorMid \o text

\* a faulty TryBlock: every 2xx status taken for success
TryBlockAny2xx(o) ==
    IF o.kind = "exc"
    THEN Raised("RequestException", o.descr)
    ELSE IF o.status \div 100 = 2
    THEN LET j == JsonLoads(o.body)
         IN  IF j.ok
             THEN Value(JsonDumps(j.val, JsonIndent))
             ELSE Raised("JSONDecodeError", o.descr)
    ELSE Value(StatusError(o.status, o.body))

\* the block under `try`
TryBlock(o) ==
    IF o.kind = "exc"
    THEN Raised("RequestException", o.descr)
    ELSE IF o.status = StatusOk
    THEN LET j == JsonLoads(o.body)
         IN  IF j.ok
             THEN Value(JsonDumps(j.val, JsonIndent))
             ELSE Raised("JSONDecodeError", o.descr)
    ELSE Value(StatusError(o.status, o.body))

\* _make_api_request once requests.get has ended with the outcome o
MakeApiRequest(o) ==
    LET r == TryBlock(o)
    IN  IF r.raised /\ Handles(r.cls)
        THEN Value(ExceptionErrorHead \o r.text)
        ELSE r

\* a faulty AfterGet: the GET is issued again after a failure
AfterGetRetry(o) ==
    IF o.kind = "exc" \/ o.status # StatusOk THEN "ready" ELSE "received"

\* where _make_api_request goes once requests.get has ended: on to the
\* conversion of the outcome, whatever the outcome is
AfterGet(o) ==
    "received"

-----------------------------------------------------------------------------
(* The state machine: tool invocations, step by step *)

\* a faulty Frame: the locals kept in module-level variables, one set for all
\* invocations
SharedFrame(p) ==
    1

\* the call frame of invocation p: every invocation has locals of its own
Frame(p) ==
    p

\* the locals of a frame before the function body has run
EmptyFrame ==
    [param_dict |-> EmptyDict, collection |-> None, url |-> <<>>,
     params |-> NoParams, response |-> NoOutcome]

NoCall ==
    [tool |-> "none", arg |-> <<>>]

Init ==
    /\ pc = [p \in Procs |-> "idle"]
    /\ call = [p \in Procs |-> NoCall]
    /\ frame = [f \in Procs |-> EmptyFrame]
    /\ wire = [p \in Procs |-> <<>>]
    /\ net = [p \in Procs |-> NoOutcome]
    /\ ret = [p \in Procs |-> <<>>]

\* the host invokes get_study(accession), for an accession among those given:
\* the URL is built
InvokeStudy(p, accessions) ==
    /\ pc[p] = "idle"
    /\ \E accession \in accessions :
          /\ call' = [call EXCEPT ![p] =
                          [tool |-> "get_study", arg |-> accession]]
          /\ frame' = [frame EXCEPT ![Frame(p)] =
                           [@ EXCEPT !.url = StudyUrl(accession),
                                     !.params = NoParams]]
    /\ pc' = [pc EXCEPT ![p] = "ready"]
    /\ UNCHANGED <<wire, net, ret>>

\* the host invokes get_study_info(accession), for an accession among those
\* given: the URL is built
InvokeInfo(p, accessions) ==
    /\ pc[p] = "idle"
    /\ \E accession \in accessions :
          /\ call' = [call EXCEPT ![p] =
                          [tool |-> "get_study_info", arg |-> accession]]
          /\ frame' = [frame EXCEPT ![Frame(p)] =
                           [@ EXCEPT !.url = StudyInfoUrl(accession),
                                     !.params = NoParams]]
    /\ pc' = [pc EXCEPT ![p] = "ready"]
    /\ UNCHANGED <<wire, net, ret>>

\* the host invokes search_studies(params), for a string among those given:
\* the string is parsed
InvokeSearch(p, inputs) ==
    /\ pc[p] = "idle"
    /\ \E params \in inputs :
          /\ call' = [call EXCEPT ![p] =
                          [tool |-> "search_studies", arg |-> params]]
          /\ frame' = [frame EXCEPT ![Frame(p)] =
                           [@ EXCEPT !.param_dict = ParseParams(params)]]
    /\ pc' = [pc EXCEPT ![p] = "parsed"]
    /\ UNCHANGED <<wire, net, ret>>

\* search_studies pops the collection and picks the base URL
ExtractCollection(p) ==
    /\ pc[p] = "parsed"
    /\ LET d == frame[Frame(p)].param_dict
           c == PopCollection(d)
       IN  frame' = [frame EXCEPT ![Frame(p)] =
                         [@ EXCEPT !.collection = c,
                                   !.param_dict = AfterPop(d),
                                   !.url = BaseUrl(c)]]
    /\ pc' = [pc EXCEPT ![p] = "located"]
    /\ UNCHANGED <<call, wire, net, ret>>

\* search_studies filters the facet parameters out
DropFacets(p) ==
    /\ pc[p] = "located"
    /\ frame' = [frame EXCEPT ![Frame(p)] =
                     [@ EXCEPT !.param_dict = FilterFacets(@)]]
    /\ pc' = [pc EXCEPT ![p] = "filtered"]
    /\ UNCHANGED <<call, wire, net, ret>>

\* search_studies sets the defaults and calls _make_api_request(base_url, param_dict)
ApplyDefaults(p) ==
    /\ pc[p] = "filtered"
    /\ LET d == SetDefaults(frame[Frame(p)].param_dict)
       IN  frame' = [frame EXCEPT ![Frame(p)] =
                         [@ EXCEPT !.param_dict = d, !.params = Params(d)]]
    /\ pc' = [pc EXCEPT ![p] = "ready"]
    /\ UNCHANGED <<call, wire, net, ret>>

\* _make_api_request calls requests.get(url, params=params): the GET goes out
Send(p) ==
    /\ pc[p] = "ready"
    /\ Len(wire[p]) < MaxGets
    /\ wire' = [wire EXCEPT ![p] =
                    Append(@, [url |-> frame[Frame(p)].url,
                               params |-> frame[Frame(p)].params])]
    /\ pc' = [pc EXCEPT ![p] = "sent"]
    /\ UNCHANGED <<call, frame, net, ret>>

\* requests.get ends with an outcome among those given: a response, or an
\* exception
Receive(p, outcomes) ==
    /\ pc[p] = "sent"
    /\ \E o \in outcomes :
          /\ net' = [net EXCEPT ![p] = o]
          /\ frame' = [frame EXCEPT ![Frame(p)] = [@ EXCEPT !.response = o]]
          /\ pc' = [pc EXCEPT ![p] = AfterGet(o)]
    /\ UNCHANGED <<call, wire, ret>>

\* _make_api_request converts the outcome, and the tool hands its result on; an
\* exception that no handler caught leaves the tool instead
Return(p) ==
    /\ pc[p] = "received"
    /\ LET r == MakeApiRequest(frame[Frame(p)].response)
       IN  IF r.raised
           THEN /\ pc' = [pc EXCEPT ![p] = "raised"]
                /\ ret' = ret
           ELSE /\ pc' = [pc EXCEPT ![p] = "done"]
                /\ ret' = [ret EXCEPT ![p] = r.text]
    /\ UNCHANGED <<call, frame, wire, net>>

-----------------------------------------------------------------------------
(* The inputs of the host and the outcomes of the remote end *)

\* the sequences over the set S of at most n elements
UpTo(S, n) ==
    UNION {[1 .. k -> S] : k \in 0 .. n}

\* the strings of ss joined by the separator sep
RECURSIVE Join(_, _)
Join(ss, sep) ==
    IF ss = <<>> THEN <<>>
    ELSE IF Len(ss) = 1 THEN ss[1]
    ELSE ss[1] \o sep \o Join(Tail(ss), sep)

\* the strings of ss one after the other
RECURSIVE Concat(_)
Concat(ss) ==
    IF ss = <<>> THEN <<>> ELSE ss[1] \o Concat(Tail(ss))

\* accessions: "S-BSST1", "a/info", ""
Accessions ==
    { <<"S","-","B","S","S","T","1">>,
      <<"a","/","i","n","f","o">>,
      <<>> }

\* the tokens a generated search string is made of
SearchTokens ==
    { <<"c","o","l","l","e","c","t","i","o","n","=","a">>,  \* collection=a
      <<"c","o","l","l","e","c","t","i","o","n","=","b">>,  \* collection=b
      <<"c","o","l","l","e","c","t","i","o","n","=">>,      \* collection=
      <<"c","o","l","l","e","c","t","i","o","n">>,          \* collection
      <<"p","a","g","e","=","2">>,                          \* page=2
      <<"p","a","g","e","=">>,                              \* page=
      <<"p","a","g","e","S","i","z","e","=","5">>,          \* pageSize=5
      <<"s","o","r","t","O","r","d","e","r","=","a">>,      \* sortOrder=a
      <<"f","a","c","e","t",".","x","=","1">>,              \* facet.x=1
      <<"F","a","c","e","t",".","x","=","1">>,              \* Facet.x=1
      <<"q","=","a","=","b">>,                              \* q=a=b
      <<"b","a","d","p","a","i","r">>,                      \* badpair
      <<"=","v">>,                                          \* =v
      <<>> }                                                \* (empty)

\* "query=cancer&badpair&page=2"
ExampleMalformed ==
    <<"q","u","e","r","y","=","c","a","n","c","e","r","&","b","a","d","p","a",
      "i","r","&","p","a","g","e","=","2">>

\* "page=3&pageSize=50&sortOrder=ascending"
ExamplePaged ==
    <<"p","a","g","e","=","3","&","p","a","g","e","S","i","z","e","=","5","0",
      "&","s","o","r","t","O","r","d","e","r","=","a","s","c","e","n","d","i",
      "n","g">>

\* "collection=a&facet.x=1&q=a=b"
ExampleScoped ==
    <<"c","o","l","l","e","c","t","i","o","n","=","a","&","f","a","c","e","t",
      ".","x","=","1","&","q","=","a","=","b">>

\* the search strings of the search specification: every `&`-join of at most
\* MaxPairs tokens, and the examples
SearchInputs ==
    {Join(ts, <<"&">>) : ts \in UpTo(SearchTokens, MaxPairs)}
        \cup {ExampleMalformed, ExamplePaged, ExampleScoped}

\* the search strings of the specifications that are not about the parsing
SearchSamples ==
    {<<>>, ExampleScoped}

\* the statuses of the remote end
Statuses ==
    {200, 201, 404}

\* the texts of the exceptions: "", "timed out", "Expecting value"
Descriptions ==
    { <<>>,
      <<"t","i","m","e","d"," ","o","u","t">>,
      <<"E","x","p","e","c","t","i","n","g"," ","v","a","l","u","e">> }

\* the fragments a generated response body is made of
BodyFrags ==
    { <<"{">>, <<"}">>, <<"[">>, <<"]">>, <<":">>, <<",">>, <<" ">>, <<"1">>,
      <<"\"">>,
      <<"\"","a","\"">>,
      <<"E","r","r","o","r",":">> }

\* {"a":1}
BodyObject ==
    <<"{","\"","a","\"",":","1","}">>

\* not found
BodyNotFound ==
    <<"n","o","t"," ","f","o","u","n","d">>

\* "Error: x"
BodyErrorString ==
    <<"\"","E","r","r","o","r",":"," ","x","\"">>

\* {"a":[1,null],"a":"Error:"}
BodyNested ==
    <<"{","\"","a","\"",":","[","1",",","n","u","l","l","]",",","\"","a","\"",
      ":","\"","E","r","r","o","r",":","\"","}">>

\* the response bodies: every concatenation of at most MaxBodyFrags fragments,
\* and the examples
Bodies ==
    {Concat(fs) : fs \in UpTo(BodyFrags, MaxBodyFrags)}
        \cup {BodyObject, BodyNotFound, BodyErrorString, BodyNested}

\* the outcomes of a GET over the statuses sts, the bodies bs and the exception
\* texts ds: the call raises, or it returns a response (which carries a text for
\* the decoder's error only where response.json() is called and fails)
OutcomesOver(sts, bs, ds) ==
    { IF st = 0
      THEN Raises(d)
      ELSE IF st = StatusOk /\ ~JsonLoads(b).ok
      THEN Response(st, b, d)
      ELSE Response(st, b, <<>>)
      : st \in sts \cup {0}, b \in bs, d \in ds }

\* the outcomes of the executor specification
AllOutcomes ==
    OutcomesOver(Statuses, Bodies, Descriptions)

\* the outcomes of the search specification
SampleOutcomes ==
    { Raises(<<"t","i","m","e","d"," ","o","u","t">>),
      Response(200, BodyObject, <<>>) }

\* the accessions, search strings and outcomes of the interleaved invocations
ConcAccessions ==
    { <<"S","-","B","S","S","T","1">> }

ConcOutcomes ==
    { Raises(<<"t","i","m","e","d"," ","o","u","t">>),
      Response(200, BodyObject, <<>>),
      Response(404, BodyNotFound, <<>>) }

-----------------------------------------------------------------------------
(* The specifications *)

\* one search_studies invocation, over the generated search strings
NextSearch ==
    \/ InvokeSearch(1, SearchInputs)
    \/ ExtractCollection(1)
    \/ DropFacets(1)
    \/ ApplyDefaults(1)
    \/ Send(1)
    \/ Receive(1, SampleOutcomes)
    \/ Return(1)

SpecSearch ==
    Init /\ [][NextSearch]_vars

\* one invocation of any tool, over the generated outcomes
NextExec ==
    \/ InvokeStudy(1, Accessions)
    \/ InvokeInfo(1, Accessions)
    \/ InvokeSearch(1, SearchSamples)
    \/ ExtractCollection(1)
    \/ DropFacets(1)
    \/ ApplyDefaults(1)
    \/ Send(1)
    \/ Receive(1, AllOutcomes)
    \/ Return(1)

SpecExec ==
    Init /\ [][NextExec]_vars

\* the invocations of the host, interleaved step by step
NextConc ==
    \E p \in Procs :
        \/ InvokeStudy(p, ConcAccessions)
        \/ InvokeInfo(p, ConcAccessions)
        \/ InvokeSearch(p, SearchSamples)
        \/ ExtractCollection(p)
        \/ DropFacets(p)
        \/ ApplyDefaults(p)
        \/ Send(p)
        \/ Receive(p, ConcOutcomes)
        \/ Return(p)

SpecConc ==
    Init /\ [][NextConc]_vars

-----------------------------------------------------------------------------
(* The reading of a search string that the properties are stated against:  *)
(* its tokens by the positions of `&`, not by the program's parsing        *)

\* invocation p has issued a GET; the first one it issued
Issued(p) ==
    Len(wire[p]) >= 1

Request(p) ==
    wire[p][1]

\* invocation p is a search_studies call that has issued its GET
Searched(p) ==
    call[p].tool = "search_studies" /\ Issued(p)

\* the indexes at which a token of s starts: 1, and right after each `&`
TokenStarts(s) ==
    {1} \cup {i + 1 : i \in {j \in 1 .. Len(s) : s[j] = "&"}}

\* the token of s that starts at index i: up to the next `&` or the end
TokenAt(s, i) ==
    LET stops == {j \in i .. Len(s) : s[j] = "&"}
        last == IF stops = {}
                THEN Len(s)
                ELSE (CHOOSE j \in stops : \A k \in stops : j <= k) - 1
    IN  SubSeq(s, i, last)

\* the indexes of `=` in the token t
EqualsIn(t) ==
    {j \in 1 .. Len(t) : t[j] = "="}

\* the index of the first `=` of a token that has one
FirstEquals(t) ==
    CHOOSE j \in EqualsIn(t) : \A k \in EqualsIn(t) : j <= k

\* the key and the value of a token that has an `=`
TokenKey(t) ==
    SubSeq(t, 1, FirstEquals(t) - 1)

TokenValue(t) ==
    SubSeq(t, FirstEquals(t) + 1, Len(t))

\* the pairs of s: the starts of its tokens that have an `=`
PairsOf(s) ==
    {i \in TokenStarts(s) : EqualsIn(TokenAt(s, i)) # {}}

\* the pairs of s whose key is k
PairsWithKey(s, k) ==
    {i \in PairsOf(s) : TokenKey(TokenAt(s, i)) = k}

\* the keys of the pairs of s
KeysOf(s) ==
    {TokenKey(TokenAt(s, i)) : i \in PairsOf(s)}

\* the value of the last pair of s whose key is k (there is one)
LastValue(s, k) ==
    LET is == PairsWithKey(s, k)
    IN  TokenValue(TokenAt(s, CHOOSE i \in is : \A j \in is : j <= i))

\* the key k begins with `facet.`
IsFacetKey(k) ==
    /\ Len(k) >= 6
    /\ <<k[1], k[2], k[3], k[4], k[5], k[6]>> = <<"f","a","c","e","t",".">>

\* the URL of the global search endpoint, and of the one scoped to collection x
GlobalSearchUrl ==
    ApiBase \o <<"/","s","e","a","r","c","h">>

ScopedSearchUrl(x) ==
    ApiBase \o <<"/">> \o x \o <<"/","s","e","a","r","c","h">>

\* the pagination keys and the default of each
PaginationKeys ==
    {KeyPage, KeyPageSize, KeySortOrder}

DefaultOf(k) ==
    IF k = KeyPage THEN <<"1">>
    ELSE IF k = KeyPageSize THEN <<"2","0">>
    ELSE <<"d","e","s","c","e","n","d","i","n","g">>

\* the reference normalisation of the search string s
Normalised(s) ==
    LET kept == {k \in KeysOf(s) : k # KeyCollection /\ ~IsFacetKey(k)}
    IN  [k \in kept \cup PaginationKeys |->
            IF k \in kept THEN LastValue(s, k) ELSE DefaultOf(k)]

-----------------------------------------------------------------------------
(* Properties of search_studies (under SpecSearch) *)

\* C3, as stated: whenever the search string has a pair collection=X, the GET
\* goes to {base}/X/search, and the parameter map has no `collection` key
C3_AsStated ==
    \A p \in Procs :
        Searched(p) =>
            /\ \A i \in PairsWithKey(call[p].arg, KeyCollection) :
                   Request(p).url =
                       ScopedSearchUrl(TokenValue(TokenAt(call[p].arg, i)))
            /\ KeyCollection \notin DOMAIN Request(p).params.map

\* C3, amended: whenever the LAST pair of the search string with the key
\* `collection` is collection=X with X not empty, the GET goes to
\* {base}/X/search; and for every search string the parameter map handed to the
\* executor has no `collection` key
C3_LastCollectionScopes ==
    \A p \in Procs :
        Searched(p) =>
            /\ Request(p).params.some
            /\ KeyCollection \notin DOMAIN Request(p).params.map
            /\ (/\ KeyCollection \in KeysOf(call[p].arg)
                /\ LastValue(call[p].arg, KeyCollection) # <<>>)
               => Request(p).url =
                      ScopedSearchUrl(LastValue(call[p].arg, KeyCollection))

\* a search string with two different collection pairs has been sent to the
\* endpoint of the later one
C3_Witness ==
    \E p \in Procs :
        /\ Searched(p)
        /\ Cardinality(PairsWithKey(call[p].arg, KeyCollection)) >= 2
        /\ LastValue(call[p].arg, KeyCollection) = <<"b">>
        /\ Request(p).url = ScopedSearchUrl(<<"b">>)

\* C4: search_studies targets the collection-scoped endpoint exactly when the
\* captured collection (the value of the last pair with key `collection`) is
\* present and not empty; with no such pair, with only a bare `collection`
\* token, or with an empty value, it targets the global endpoint {base}/search
C4_ScopedIffCollection ==
    \A p \in Procs :
        Searched(p) =>
            LET s == call[p].arg
                captured == KeyCollection \in KeysOf(s)
            IN  IF captured /\ LastValue(s, KeyCollection) # <<>>
                THEN /\ Request(p).url = ScopedSearchUrl(LastValue(s, KeyCollection))
                     /\ Request(p).url # GlobalSearchUrl
                ELSE Request(p).url = GlobalSearchUrl

\* a search string holding `collection=` (an empty value) and a bare
\* `collection` token has been sent to the global endpoint
C4_Witness ==
    \E p \in Procs :
        /\ Searched(p)
        /\ KeyCollection \in KeysOf(call[p].arg)
        /\ LastValue(call[p].arg, KeyCollection) = <<>>
        /\ \E i \in TokenStarts(call[p].arg) :
               TokenAt(call[p].arg, i) = KeyCollection
        /\ Request(p).url = GlobalSearchUrl

\* C5: the parameter map handed to the executor always holds page, pageSize and
\* sortOrder; each has the caller's value (that of the last pair with the key,
\* the empty string included) when the search string has a pair with the key,
\* and the default 1, 20, descending when it has none; the empty search string
\* yields exactly the three defaults
C5_PaginationDefaults ==
    \A p \in Procs :
        Searched(p) =>
            LET s == call[p].arg
                m == Request(p).params.map
            IN  /\ Request(p).params.some
                /\ PaginationKeys \subseteq DOMAIN m
                /\ \A k \in PaginationKeys :
                       m[k] = IF k \in KeysOf(s) THEN LastValue(s, k)
                                                 ELSE DefaultOf(k)
                /\ s = <<>> =>
                       /\ DOMAIN m = PaginationKeys
                       /\ m[KeyPage] = <<"1">>
                       /\ m[KeyPageSize] = <<"2","0">>
                       /\ m[KeySortOrder] = <<"d","e","s","c","e","n","d","i","n","g">>

\* a search string with `page=` (an empty value) and no sortOrder pair has been
\* sent with page empty and sortOrder defaulted
C5_Witness ==
    \E p \in Procs :
        /\ Searched(p)
        /\ KeyPage \in KeysOf(call[p].arg)
        /\ LastValue(call[p].arg, KeyPage) = <<>>
        /\ KeySortOrder \notin KeysOf(call[p].arg)
        /\ Request(p).params.map[KeyPage] = <<>>
        /\ Request(p).params.map[KeySortOrder]
               = <<"d","e","s","c","e","n","d","i","n","g">>

\* C6: no key of the parameter map handed to the executor begins with `facet.`
\* (case-sensitive), wherever such pairs stand in the search string and whether
\* or not it has a collection pair
C6_NoFacetKeys ==
    \A p \in Procs :
        Searched(p) =>
            \A k \in DOMAIN Request(p).params.map : ~IsFacetKey(k)

\* a search string whose last pair is a facet pair and which also has a
\* collection pair and a `Facet.` pair has been sent: the facet key is gone,
\* the `Facet.` key is kept
C6_Witness ==
    \E p \in Procs :
        /\ Searched(p)
        /\ \E i \in PairsOf(call[p].arg) :
               /\ IsFacetKey(TokenKey(TokenAt(call[p].arg, i)))
               /\ \A j \in TokenStarts(call[p].arg) : j <= i
        /\ KeyCollection \in KeysOf(call[p].arg)
        /\ <<"F","a","c","e","t",".","x">> \in DOMAIN Request(p).params.map
        /\ <<"f","a","c","e","t",".","x">> \notin DOMAIN Request(p).params.map

\* C10: the parameter map search_studies sends is the reference normalisation
\* of the search string: tokens split on `&`, a token without `=` dropped, a
\* token split at its first `=` only, the last occurrence of a key winning, the
\* collection entry and the facet entries removed, every other entry kept
\* unchanged, the three defaults added where absent;
\* query=cancer&badpair&page=2 yields
\* {query: cancer, page: 2, pageSize: 20, sortOrder: descending}
C10_ReferenceNormalisation ==
    \A p \in Procs :
        Searched(p) =>
            /\ Request(p).params = [some |-> TRUE, map |-> Normalised(call[p].arg)]
            /\ call[p].arg = ExampleMalformed =>
                   Request(p).params.map =
                       [k \in { <<"q","u","e","r","y">>, KeyPage, KeyPageSize,
                                KeySortOrder } |->
                           IF k = <<"q","u","e","r","y">>
                           THEN <<"c","a","n","c","e","r">>
                           ELSE IF k = KeyPage THEN <<"2">>
                           ELSE IF k = KeyPageSize THEN <<"2","0">>
                           ELSE <<"d","e","s","c","e","n","d","i","n","g">>]

\* a search string with a repeated key, a value holding `=` and a token without
\* `=` has been sent
C10_Witness ==
    \E p \in Procs :
        /\ Searched(p)
        /\ \E k \in KeysOf(call[p].arg) :
               Cardinality(PairsWithKey(call[p].arg, k)) >= 2
        /\ \E i \in PairsOf(call[p].arg) :
               Cardinality(EqualsIn(TokenAt(call[p].arg, i))) >= 2
        /\ PairsOf(call[p].arg) # TokenStarts(call[p].arg)
        /\ Request(p).params.map[<<"q">>] = <<"a","=","b">>

-----------------------------------------------------------------------------
(* Properties of the executor and of the three tools (under SpecExec) *)

\* invocation p has returned: the outcome it was given and the text it returned
Returned(p) ==
    pc[p] = "done"

\* the text r begins with the literal `Error:`
HasErrorPrefix(r) ==
    /\ Len(r) >= 6
    /\ <<r[1], r[2], r[3], r[4], r[5], r[6]>> = <<"E","r","r","o","r",":">>

\* the outcome o is a success: a response with status 200 whose body parses
Succeeded(o) ==
    o.kind = "resp" /\ o.status = 200 /\ JsonLoads(o.body).ok

\* the decimal text of the statuses of the remote end
StatusText(st) ==
    IF st = 200 THEN <<"2","0","0">>
    ELSE IF st = 201 THEN <<"2","0","1">>
    ELSE <<"4","0","4">>

\* C1: no tool operation and no call of the executor lets an error escape: for
\* every input and every outcome of the GET (200 with a body that parses, 200
\* with one that does not, another status, a transport failure) the invocation
\* never ends by raising, and once it has returned it has returned a text
C1_NoErrorEscapes ==
    \A p \in Procs :
        /\ pc[p] # "raised"
        /\ Returned(p) => Len(ret[p]) > 0
        /\ pc[p] = "received" => ~MakeApiRequest(net[p]).raised

\* search_studies has returned a text after a 200 response whose body does not
\* parse as JSON
C1_Witness ==
    \E p \in Procs :
        /\ Returned(p)
        /\ call[p].tool = "search_studies"
        /\ net[p].kind = "resp" /\ net[p].status = 200
        /\ ~JsonLoads(net[p].body).ok
        /\ HasErrorPrefix(ret[p])

\* C2: the executor turns every outcome into exactly one of three forms:
\* status 200 and a body that parses, the 2-space-indented re-serialisation of
\* the body, which does not begin with `Error:`; any other status (other 2xx
\* included, parseable body or not), `Error: Request failed with status code
\* <code>. Response: <body>` with the raw body; a transport failure or a 200
\* whose body does not parse, `Error: An exception occurred during request:
\* <description>`.  So the result begins with `Error:` exactly when the call
\* did not succeed
C2_ThreeResultForms ==
    \A p \in Procs :
        Returned(p) =>
            LET o == net[p]
                r == ret[p]
            IN  /\ HasErrorPrefix(r) <=> ~Succeeded(o)
                /\ Succeeded(o) =>
                       /\ r = JsonDumps(JsonLoads(o.body).val, 2)
                       /\ JsonLoads(r).ok
                       /\ JsonLoads(r).val = JsonLoads(o.body).val
                       /\ r[1] \in {"{", "[", "\"", "n"} \cup JsonDigits
                /\ (o.kind = "resp" /\ o.status # 200) =>
                       r = <<"E","r","r","o","r",":"," ","R","e","q","u","e","s",
                             "t"," ","f","a","i","l","e","d"," ","w","i","t","h",
                             " ","s","t","a","t","u","s"," ","c","o","d","e"," ">>
                           \o StatusText(o.status)
                           \o <<"."," ","R","e","s","p","o","n","s","e",":"," ">>
                           \o o.body
                /\ (o.kind = "exc" \/ (o.kind = "resp" /\ o.status = 200
                                       /\ ~JsonLoads(o.body).ok)) =>
                       r = <<"E","r","r","o","r",":"," ","A","n"," ","e","x","c",
                             "e","p","t","i","o","n"," ","o","c","c","u","r","r",
                             "e","d"," ","d","u","r","i","n","g"," ","r","e","q",
                             "u","e","s","t",":"," ">>
                           \o o.descr
                /\ o = Response(200, BodyObject, <<>>) =>
                       r = <<"{","\n"," "," ","\"","a","\"",":"," ","1","\n","}">>
                /\ o = Response(200, BodyNested, <<>>) =>
                       r = <<"{","\n"," "," ","\"","a","\"",":"," ","\"","E","r",
                             "r","o","r",":","\"","\n","}">>
                /\ o = Response(404, BodyNotFound, <<>>) =>
                       r = <<"E","r","r","o","r",":"," ","R","e","q","u","e","s",
                             "t"," ","f","a","i","l","e","d"," ","w","i","t","h",
                             " ","s","t","a","t","u","s"," ","c","o","d","e"," ",
                             "4","0","4","."," ","R","e","s","p","o","n","s","e",
                             ":"," ","n","o","t"," ","f","o","u","n","d">>

\* the executor has returned the status form for a 201 response whose body is
\* valid JSON
C2_Witness ==
    \E p \in Procs :
        /\ Returned(p)
        /\ net[p].kind = "resp" /\ net[p].status = 201
        /\ JsonLoads(net[p].body).ok
        /\ net[p].body = <<"\"","E","r","r","o","r",":"," ","x","\"">>
        /\ HasErrorPrefix(ret[p])

\* C7: every invocation performs exactly one GET on every path: none before
\* its inputs are built, one from then on, never a second one after a status
\* other than 200 or a transport failure, and no result before that one GET
\* has completed or failed
C7_ExactlyOneGet ==
    \A p \in Procs :
        /\ Len(wire[p]) <= 1
        /\ pc[p] \in {"idle", "parsed", "located", "filtered", "ready"}
               <=> Len(wire[p]) = 0
        /\ pc[p] \in {"idle", "parsed", "located", "filtered", "ready", "sent"}
               <=> net[p].kind = "none"
        /\ Returned(p) => Len(wire[p]) = 1 /\ net[p].kind \in {"resp", "exc"}

\* an invocation has returned after a transport failure, having issued one GET
C7_Witness ==
    \E p \in Procs :
        /\ Returned(p)
        /\ net[p].kind = "exc"
        /\ Len(wire[p]) = 1

\* C8: get_study(a) issues its GET to exactly {base}/studies/{a} and
\* get_study_info(a) to exactly {base}/studies/{a}/info, each with no
\* parameter map, and each returns the executor's result unchanged
C8_StudyUrls ==
    \A p \in Procs :
        /\ (call[p].tool = "get_study" /\ Issued(p)) =>
               /\ Request(p).url = ApiBase \o <<"/","s","t","u","d","i","e","s","/">>
                                           \o call[p].arg
               /\ Request(p).params = [some |-> FALSE, map |-> EmptyDict]
        /\ (call[p].tool = "get_study_info" /\ Issued(p)) =>
               /\ Request(p).url = ApiBase \o <<"/","s","t","u","d","i","e","s","/">>
                                           \o call[p].arg \o <<"/","i","n","f","o">>
               /\ Request(p).params = [some |-> FALSE, map |-> EmptyDict]
        /\ (call[p].tool \in {"get_study", "get_study_info"} /\ Returned(p)) =>
               ret[p] = MakeApiRequest(net[p]).text

\* get_study_info("S-BSST1") has returned, its GET having gone to
\* https://www.ebi.ac.uk/biostudies/api/v1/studies/S-BSST1/info
C8_Witness ==
    \E p \in Procs :
        /\ Returned(p)
        /\ call[p] = [tool |-> "get_study_info",
                      arg |-> <<"S","-","B","S","S","T","1">>]
        /\ Request(p).url =
               <<"h","t","t","p","s",":","/","/","w","w","w",".","e","b","i",".",
                 "a","c",".","u","k","/","b","i","o","s","t","u","d","i","e","s",
                 "/","a","p","i","/","v","1","/","s","t","u","d","i","e","s","/",
                 "S","-","B","S","S","T","1","/","i","n","f","o">>

-----------------------------------------------------------------------------
(* Independence of concurrent invocations (under SpecConc) *)

\* the request the call c makes when nothing else runs
IsolatedRequest(c) ==
    IF c.tool = "get_study"
    THEN [url |-> StudyUrl(c.arg), params |-> NoParams]
    ELSE IF c.tool = "get_study_info"
    THEN [url |-> StudyInfoUrl(c.arg), params |-> NoParams]
    ELSE LET parsed == ParseParams(c.arg)
         IN  [url |-> BaseUrl(PopCollection(parsed)),
              params |-> Params(SetDefaults(FilterFacets(AfterPop(parsed))))]

\* C9: under any interleaving of the invocations, the request of each (its URL
\* and its parameter map) is the one its own input gives when run alone, and
\* its result the one its own response gives: no invocation reads or writes
\* what another has written
C9_InvocationsIndependent ==
    \A p \in Procs :
        /\ Issued(p) => wire[p] = <<IsolatedRequest(call[p])>>
        /\ pc[p] \in {"received", "done"} => frame[p].response = net[p]
        /\ Returned(p) => ret[p] = MakeApiRequest(net[p]).text
        /\ pc[p] = "idle" => frame[p] = EmptyFrame

\* two invocations of different tools are under way at once, one waiting for
\* its response while the other is still building its request
C9_Witness ==
    \E p, q \in Procs :
        /\ p # q
        /\ call[p].tool = "get_study" /\ pc[p] = "sent"
        /\ call[q].tool = "search_studies" /\ pc[q] = "located"

=============================================================================
